---- MODULE Spec2Model ----
(***************************************************************************)
(* State-machine model of the grade utility: lancamentoNotas.py (teacher   *)
(* entry flow over a shared spreadsheet, behind a process-wide time-bounded*)
(* cache) and consultaNotas.py (student query: averages and recovery).     *)
(*                                                                         *)
(* Text is modelled as a sequence of one-character strings, so that the    *)
(* conversions of the code (clean_nota_value, strptime, the .2f format)    *)
(* are computed character by character.  Labels that are only compared     *)
(* after strip+upper are atomic strings with an explicit normal form.      *)
(* Grades are integers in thousandths (7.5 is 7500).  Non-ASCII letters of *)
(* the sheet's labels are written in ASCII ("Matricula", "1o").            *)
(***************************************************************************)
EXTENDS Integers, Sequences, FiniteSets, TLC

\* ------------------------------------------------------------------ text

Digit == {"0", "1", "2", "3", "4", "5", "6", "7", "8", "9"}

DigitVal(c) ==
    CASE c = "0" -> 0 [] c = "1" -> 1 [] c = "2" -> 2 [] c = "3" -> 3
      [] c = "4" -> 4 [] c = "5" -> 5 [] c = "6" -> 6 [] c = "7" -> 7
      [] c = "8" -> 8 [] c = "9" -> 9

DigitChar(n) ==
    CASE n = 0 -> "0" [] n = 1 -> "1" [] n = 2 -> "2" [] n = 3 -> "3"
      [] n = 4 -> "4" [] n = 5 -> "5" [] n = 6 -> "6" [] n = 7 -> "7"
      [] n = 8 -> "8" [] n = 9 -> "9"

\* The cell value pandas reports as missing (pd.isna).
NA == <<"<NA>">>

IsDigits(s) == \A i \in 1..Len(s) : s[i] \in Digit

RECURSIVE DigitsVal(_)
DigitsVal(s) ==
    IF s = <<>> THEN 0
    ELSE 10 * DigitsVal(SubSeq(s, 1, Len(s) - 1)) + DigitVal(s[Len(s)])

Count(s, c) == Cardinality({i \in 1..Len(s) : s[i] = c})

\* Index of the first occurrence of c in s (0 when absent).
FirstIdx(s, c) ==
    IF \E i \in 1..Len(s) : s[i] = c
    THEN CHOOSE i \in 1..Len(s) : s[i] = c /\ \A j \in 1..(i - 1) : s[j] # c
    ELSE 0

\* str.strip()
RECURSIVE StripLeft(_)
StripLeft(s) == IF s # <<>> /\ Head(s) = " " THEN StripLeft(Tail(s)) ELSE s

RECURSIVE StripRight(_)
StripRight(s) ==
    IF s # <<>> /\ s[Len(s)] = " " THEN StripRight(SubSeq(s, 1, Len(s) - 1)) ELSE s

Strip(s) == StripRight(StripLeft(s))

\* str.replace(',', '.')
ReplaceComma(s) == [i \in 1..Len(s) |-> IF s[i] = "," THEN "." ELSE s[i]]

\* re.match(r'^\d{1,2}/\d{1,2}$', value)
MatchesDayMonth(s) ==
    /\ Count(s, "/") = 1
    /\ LET k == FirstIdx(s, "/")
       IN  /\ k - 1 \in 1..2
           /\ Len(s) - k \in 1..2
           /\ IsDigits(SubSeq(s, 1, k - 1))
           /\ IsDigits(SubSeq(s, k + 1, Len(s)))

\* re.sub(r'[^\d.]', '', value)
KeepDigitsAndDots(s) == SelectSeq(s, LAMBDA c : c \in Digit \cup {"."})

RemoveDots(s) == SelectSeq(s, LAMBDA c : c # ".")

\* parts = value.split('.'); parts[0] + '.' + ''.join(parts[1:]) when len(parts) > 2
JoinAfterFirstDot(s) ==
    IF Count(s, ".") > 1
    THEN LET k == FirstIdx(s, ".")
         IN  SubSeq(s, 1, k) \o RemoveDots(SubSeq(s, k + 1, Len(s)))
    ELSE s

\* lancamentoNotas.clean_nota_value: returns text.
clean_nota_value(value) ==
    IF value = NA THEN <<"0", ".", "0">>
    ELSE LET v1 == ReplaceComma(Strip(value))
             v2 == IF MatchesDayMonth(v1)
                   THEN LET k == FirstIdx(v1, "/")
                        IN  SubSeq(v1, 1, k - 1) \o <<".">> \o SubSeq(v1, k + 1, Len(v1))
                   ELSE v1
             v3 == JoinAfterFirstDot(KeepDigitsAndDots(v2))
         IN  IF v3 # <<>> THEN v3 ELSE <<"0", ".", "0">>

\* Whether float()/pd.to_numeric accept the text: digits with at most one dot and
\* at least one digit (the only shapes clean_nota_value can return).
IsFloatText(s) ==
    /\ s # <<>>
    /\ \A i \in 1..Len(s) : s[i] \in Digit \cup {"."}
    /\ Count(s, ".") <= 1
    /\ Count(s, ".") < Len(s)

\* The first three decimals of the fraction, as thousandths.
FracThousandths(f) ==
    LET d(i) == IF i <= Len(f) THEN DigitVal(f[i]) ELSE 0
    IN  100 * d(1) + 10 * d(2) + d(3)

\* The value of an accepted text, in thousandths.
FloatValue(s) ==
    LET k == FirstIdx(s, ".")
    IN  IF k = 0 THEN 1000 * DigitsVal(s)
        ELSE 1000 * DigitsVal(SubSeq(s, 1, k - 1))
             + FracThousandths(SubSeq(s, k + 1, Len(s)))

\* pd.to_numeric(x, errors='coerce') followed by fillna(0.0)
to_numeric_coerce(s) == IF IsFloatText(s) THEN FloatValue(s) ELSE 0

RECURSIVE NatText(_)
NatText(n) ==
    IF n < 10 THEN <<DigitChar(n)>> ELSE NatText(n \div 10) \o <<DigitChar(n % 10)>>

\* f"{nota_valor:.2f}" for a value in thousandths (rounded to the nearest hundredth;
\* the inputs of the model avoid exact ties).
Format2(n) ==
    LET h == (n + 5) \div 10
    IN  NatText(h \div 100) \o <<".", DigitChar((h \div 10) % 10), DigitChar(h % 10)>>

\* ----------------------------------------------------------------- dates

\* A calendar date is [y, m, d]; date texts are day/month/year.
IsLeap(y) == (y % 4 = 0 /\ y % 100 # 0) \/ y % 400 = 0

DaysInMonth(y, m) ==
    IF m = 2 THEN (IF IsLeap(y) THEN 29 ELSE 28)
    ELSE IF m \in {4, 6, 9, 11} THEN 30 ELSE 31

\* The three fields of a text with exactly two slashes.
DateFields(s) ==
    LET k1 == FirstIdx(s, "/")
        rest == SubSeq(s, k1 + 1, Len(s))
        k2 == FirstIdx(rest, "/")
    IN  <<SubSeq(s, 1, k1 - 1), SubSeq(rest, 1, k2 - 1), SubSeq(rest, k2 + 1, Len(rest))>>

\* Whether datetime.strptime(text, "%d/%m/%Y") succeeds (it raises ValueError
\* otherwise): one or two digits, one or two digits, four digits, a real date.
StrptimeOk(s) ==
    /\ Count(s, "/") = 2
    /\ LET f == DateFields(s)
       IN  /\ Len(f[1]) \in 1..2 /\ IsDigits(f[1])
           /\ Len(f[2]) \in 1..2 /\ IsDigits(f[2])
           /\ Len(f[3]) = 4 /\ IsDigits(f[3])
           /\ DigitsVal(f[3]) >= 1
           /\ DigitsVal(f[2]) \in 1..12
           /\ DigitsVal(f[1]) \in 1..DaysInMonth(DigitsVal(f[3]), DigitsVal(f[2]))

\* datetime.strptime(text, "%d/%m/%Y").date()
Strptime(s) ==
    LET f == DateFields(s)
    IN  [y |-> DigitsVal(f[3]), m |-> DigitsVal(f[2]), d |-> DigitsVal(f[1])]

TwoDigits(n) == <<DigitChar(n \div 10), DigitChar(n % 10)>>

\* date.strftime('%d/%m/%Y') (four-digit years)
Strftime(dt) == TwoDigits(dt.d) \o <<"/">> \o TwoDigits(dt.m) \o <<"/">> \o NatText(dt.y)

\* date comparison: inicio <= fim
DateLeq(a, b) ==
    \/ a.y < b.y
    \/ a.y = b.y /\ a.m < b.m
    \/ a.y = b.y /\ a.m = b.m /\ a.d <= b.d

\* The day after dt.
NextDate(dt) ==
    IF dt.d < DaysInMonth(dt.y, dt.m) THEN [dt EXCEPT !.d = dt.d + 1]
    ELSE IF dt.m < 12 THEN [y |-> dt.y, m |-> dt.m + 1, d |-> 1]
    ELSE [y |-> dt.y + 1, m |-> 1, d |-> 1]

\* ---------------------------------------------------------------- labels

\* str(x).strip().upper() on the labels of the model.  "1o", "2o" stand for the
\* options "1º", "2º": upper() leaves the digit and the ordinal sign unchanged.
Norm(x) ==
    CASE x = "Final" -> "FINAL"
      [] x = " final " -> "FINAL"
      [] x = "p1" -> "P1"
      [] x = " P1 " -> "P1"
      [] x = "p2" -> "P2"
      [] x = "5a " -> "5A"
      [] x = "mat" -> "MAT"
      [] x = " 1o" -> "1o"
      [] x = "mensal" -> "MENSAL"
      [] OTHER -> x

\* -------------------------------------------------------- validate_period

MsgNaoAutorizado == [kind |-> "nao_autorizado"]

\* Rows of df_periodo are [Bimestre, DataInicio, DataFim].
validate_period_strict(bimestre, df_periodo, today) ==
    LET b == Norm(bimestre)
        periodo_ok == SelectSeq(df_periodo, LAMBDA r : Norm(r.Bimestre) = b)
    IN  IF periodo_ok = <<>> THEN <<FALSE, MsgNaoAutorizado>>
        ELSE LET r == periodo_ok[1]
             IN  IF ~(StrptimeOk(r.DataInicio) /\ StrptimeOk(r.DataFim))
                 THEN <<FALSE, [kind |-> "erro_formato"]>>
                 ELSE LET inicio == Strptime(r.DataInicio)
                          fim == Strptime(r.DataFim)
                      IN  IF ~(DateLeq(inicio, today) /\ DateLeq(today, fim)
                               /\ today # inicio /\ today # fim)
                          THEN <<FALSE, [kind |-> "fora_da_janela",
                                         inicio |-> Strftime(inicio),
                                         fim |-> Strftime(fim)]>>
                          ELSE <<TRUE, [kind |-> "vazio"]>>

validate_period(bimestre, df_periodo, today) ==
    LET b == Norm(bimestre)
        periodo_ok == SelectSeq(df_periodo, LAMBDA r : Norm(r.Bimestre) = b)
    IN  IF periodo_ok = <<>> THEN <<FALSE, MsgNaoAutorizado>>
        ELSE LET r == periodo_ok[1]
             IN  IF ~(StrptimeOk(r.DataInicio) /\ StrptimeOk(r.DataFim))
                 THEN <<FALSE, [kind |-> "erro_formato"]>>
                 ELSE LET inicio == Strptime(r.DataInicio)
                          fim == Strptime(r.DataFim)
                      IN  IF ~(DateLeq(inicio, today) /\ DateLeq(today, fim))
                          THEN <<FALSE, [kind |-> "fora_da_janela",
                                         inicio |-> Strftime(inicio),
                                         fim |-> Strftime(fim)]>>
                          ELSE <<TRUE, [kind |-> "vazio"]>>

\* ------------------------------------------------------------ the sheets

T4(a, b, c, d) == <<a, b, c, d>>
T10(a, b, c, d, e, f, g, h, i, j) == <<a, b, c, d, e, f, g, h, i, j>>

\* Header row of Notas_Tabela, in the column order of nova_linha.
HeadersNotas ==
    <<"Nome do Aluno", "Matricula", "Serie", "Turno", "Componente Curricular",
      "Bimestre", "Tipo de Avaliacao", "Nota", "Professor", "Mat_Professor">>

\* The same sheet with the grade column under another title: no 'Nota' header.
HeadersSemNota == [HeadersNotas EXCEPT ![8] = "NOTA FINAL"]

\* Columns load_data normalises with astype(str).str.strip().str.upper().
NormCols ==
    {"Matricula", "Serie", "Componente Curricular", "Bimestre",
     "Tipo de Avaliacao", "Mat_Professor"}

Range(f) == {f[i] : i \in DOMAIN f}

Pos(seq, x) == CHOOSE i \in 1..Len(seq) : seq[i] = x

\* Mutant: row_index counts the data rows from 1.
load_row_index_from_one(ws) ==
    [ headers |-> ws.headers,
      data |-> [i \in 1..Len(ws.rows) |->
                 [c \in Range(ws.headers) \cup {"row_index"} |->
                    IF c = "row_index" THEN i
                    ELSE LET v == ws.rows[i][Pos(ws.headers, c)]
                         IN  IF c \in NormCols THEN Norm(v)
                             ELSE IF c = "Nota"
                                  THEN to_numeric_coerce(clean_nota_value(v))
                                  ELSE v]] ]

\* load_data: the DataFrame of a worksheet [headers, rows]: one record per data
\* row, keyed by the header titles (get_all_records), text columns normalised,
\* 'Nota' converted, and row_index = index + 2 (index is 0-based).
read_worksheet(ws) ==
    [ headers |-> ws.headers,
      data |-> [i \in 1..Len(ws.rows) |->
                 [c \in Range(ws.headers) \cup {"row_index"} |->
                    IF c = "row_index" THEN (i - 1) + 2
                    ELSE LET v == ws.rows[i][Pos(ws.headers, c)]
                         IN  IF c \in NormCols THEN Norm(v)
                             ELSE IF c = "Nota"
                                  THEN to_numeric_coerce(clean_nota_value(v))
                                  ELSE v]] ]

\* Release-window sheet (Controle_Liberacao): managed outside the program and only
\* read by it.  "1o" is open from 01/03/2025 to 31/03/2025, the window of "2o" is
\* 01/02/2025 to 10/02/2025, the dates of "3o" do not parse (31/02), and "Final"
\* has no row.
ControleRows ==
    << [Bimestre |-> " 1o",
        DataInicio |-> T10("0", "1", "/", "0", "3", "/", "2", "0", "2", "5"),
        DataFim |-> T10("3", "1", "/", "0", "3", "/", "2", "0", "2", "5")],
       [Bimestre |-> "2o",
        DataInicio |-> T10("0", "1", "/", "0", "2", "/", "2", "0", "2", "5"),
        DataFim |-> T10("1", "0", "/", "0", "2", "/", "2", "0", "2", "5")],
       [Bimestre |-> "3o",
        DataInicio |-> T10("3", "1", "/", "0", "2", "/", "2", "0", "2", "5"),
        DataFim |-> T10("1", "0", "/", "0", "3", "/", "2", "0", "2", "5")] >>

\* load_data(client, WORKSHEET_CONTROLE): the 'Bimestre' column is normalised.
load_periodo(rows) == [i \in 1..Len(rows) |->
                         [rows[i] EXCEPT !.Bimestre = Norm(rows[i].Bimestre)]]

\* ----------------------------------------------------------------- state

Sessions == {"s1", "s2"}

NoValue == [none |-> TRUE]

VARIABLES
    sheet,          \* Notas_Tabela: [headers, rows], rows of 10 cells
    controle,       \* Controle_Liberacao: rows [Bimestre, DataInicio, DataFim]
    cache,          \* st.cache_data entry of load_data for Notas_Tabela, or NoValue
    df,             \* session_state["df"] + ["headers_notas"] per session, or NoValue
    cache_version,  \* session_state["cache_version"] per session
    prof,           \* [nome_prof, mat_prof] of an authenticated session, or NoValue
    hoje,           \* datetime.today().date()
    ticks,          \* days elapsed (bounded)
    resultado,      \* consultaNotas: the rows of one student and period
    ev              \* the outcome of the interaction that produced this state

vars == <<sheet, controle, cache, df, cache_version, prof, hoje, ticks, resultado, ev>>

NoEv == [kind |-> "none"]

\* ---------------------------------------------------------------- bounds

MaxRows == 4        \* data rows of Notas_Tabela
MaxVersion == 2     \* cache_version
MaxTicks == 3       \* days elapsed

\* --------------------------------------------------------------- load_data

WORKSHEET_NOTAS == "Notas_Tabela"

\* The key st.cache_data derives for a call of load_data(_client, worksheet_name,
\* _cache_version): arguments whose parameter name begins with an underscore are
\* not hashed, so only worksheet_name is part of it.
cache_key(worksheet_name, version) == <<worksheet_name>>

\* load_data behind @st.cache_data(ttl=300): <<value returned, cache afterwards>>.
load_data(c, ws, version) ==
    LET k == cache_key(WORKSHEET_NOTAS, version)
    IN  IF k \in DOMAIN c THEN <<c[k], c>>
        ELSE LET v == read_worksheet(ws)
             IN  <<v, [x \in DOMAIN c \cup {k} |-> IF x = k THEN v ELSE c[x]]>>

EmptyCache == [x \in {} |-> NoValue]

\* ------------------------------------------------------ entry-flow helpers

Letters == <<"A", "B", "C", "D", "E", "F", "G", "H", "I", "J">>

\* headers_notas.index("Nota") + 1 if "Nota" in headers_notas else 8 (index is 0-based)
nota_column_idx(headers) ==
    IF "Nota" \in Range(headers) THEN (Pos(headers, "Nota") - 1) + 1 ELSE 8

\* chr(64 + nota_column_idx)
nota_column_letter(headers) == Letters[nota_column_idx(headers)]

\* Mutant: every registration is accepted.
validate_professor_any(mat_prof, data) == TRUE

\* validate_professor(mat_prof, df)
validate_professor(mat_prof, data) ==
    \E i \in 1..Len(data) : Norm(data[i]["Mat_Professor"]) = Norm(mat_prof)

\* series_disponiveis / componentes: the launch parameters offered to the teacher.
series_disponiveis(data, mat_prof) ==
    {data[i]["Serie"] : i \in {j \in 1..Len(data) :
        Norm(data[j]["Mat_Professor"]) = Norm(mat_prof)}}

componentes(data, mat_prof, serie) ==
    {data[i]["Componente Curricular"] : i \in {j \in 1..Len(data) :
        /\ Norm(data[j]["Mat_Professor"]) = Norm(mat_prof)
        /\ Norm(data[j]["Serie"]) = Norm(serie)}}

\* Python's order on the student names of the model.
NameRank(n) == CASE n = "ANA" -> 1 [] n = "BRUNO" -> 2 [] OTHER -> 3

RECURSIVE SortByName(_)
SortByName(S) ==
    IF S = {} THEN <<>>
    ELSE LET first == CHOOSE a \in S : \A b \in S : NameRank(a.nome) <= NameRank(b.nome)
         IN  <<first>> \o SortByName(S \ {first})

\* alunos_serie: the rows of the class, [nome, matricula, turno], first row per
\* Matricula (drop_duplicates), sorted by name.
alunos_serie(data, serie) ==
    LET idx == {i \in 1..Len(data) :
                  /\ Norm(data[i]["Serie"]) = Norm(serie)
                  /\ \A j \in 1..(i - 1) :
                        ~(/\ Norm(data[j]["Serie"]) = Norm(serie)
                          /\ data[j]["Matricula"] = data[i]["Matricula"])}
    IN  SortByName({[nome |-> data[i]["Nome do Aluno"],
                     matricula |-> data[i]["Matricula"],
                     turno |-> data[i]["Turno"]] : i \in idx})

\* Mutant: the duplicate check reads the spreadsheet as it is when the form is
\* submitted instead of the session's snapshot.
existe_in_store(data, matricula, serie, componente, bimestre, tipo) ==
    SelectSeq(read_worksheet(sheet).data, LAMBDA r :
        /\ Norm(r["Matricula"]) = Norm(matricula)
        /\ Norm(r["Serie"]) = Norm(serie)
        /\ Norm(r["Componente Curricular"]) = Norm(componente)
        /\ Norm(r["Bimestre"]) = Norm(bimestre)
        /\ Norm(r["Tipo de Avaliacao"]) = Norm(tipo))

\* cond: the rows of df matching the composite key, in row order.
existe(data, matricula, serie, componente, bimestre, tipo) ==
    SelectSeq(data, LAMBDA r :
        /\ Norm(r["Matricula"]) = Norm(matricula)
        /\ Norm(r["Serie"]) = Norm(serie)
        /\ Norm(r["Componente Curricular"]) = Norm(componente)
        /\ Norm(r["Bimestre"]) = Norm(bimestre)
        /\ Norm(r["Tipo de Avaliacao"]) = Norm(tipo))

\* Mutant: no score counts as "not entered".
not_entered_never(nota_valor) == FALSE

\* Line 265: a score of 0.0 counts as "not entered".
not_entered(nota_valor) == nota_valor = 0

EmptyPlan == [registros |-> <<>>, erros |-> <<>>, atualizados |-> <<>>,
              batch_updates |-> <<>>]

\* Mutant: a duplicate without overwrite is appended instead of being skipped.
plan_step_dup_appends(acc, a, data, letter, p, notas, sobrescrever, pr) ==
    LET nota_valor == notas[a.matricula]
        nova_linha == T10(a.nome, a.matricula, p.serie, a.turno, p.componente,
                          p.bimestre, p.tipo, Format2(nota_valor),
                          pr.nome_prof, pr.mat_prof)
        ex == SelectSeq(data, LAMBDA r :
                /\ Norm(r["Matricula"]) = Norm(a.matricula)
                /\ Norm(r["Serie"]) = Norm(p.serie)
                /\ Norm(r["Componente Curricular"]) = Norm(p.componente)
                /\ Norm(r["Bimestre"]) = Norm(p.bimestre)
                /\ Norm(r["Tipo de Avaliacao"]) = Norm(p.tipo))
    IN  IF nota_valor = 0 THEN acc
        ELSE IF ex # <<>> /\ sobrescrever
        THEN [acc EXCEPT
                !.batch_updates = Append(@, [col |-> letter,
                                             row |-> ex[1]["row_index"],
                                             value |-> Format2(nota_valor)]),
                !.atualizados = Append(@, a.matricula)]
        ELSE [acc EXCEPT !.registros = Append(@, nova_linha)]

\* One iteration of the submit loop (lines 259-301) for student a.
plan_step(acc, a, data, letter, p, notas, sobrescrever, pr) ==
    LET nota_valor == notas[a.matricula]
        nova_linha == T10(a.nome, a.matricula, p.serie, a.turno, p.componente,
                          p.bimestre, p.tipo, Format2(nota_valor),
                          pr.nome_prof, pr.mat_prof)
        ex == existe(data, a.matricula, p.serie, p.componente, p.bimestre, p.tipo)
    IN  IF not_entered(nota_valor) THEN acc
        ELSE IF ex # <<>>
        THEN IF sobrescrever
             THEN [acc EXCEPT
                     !.batch_updates = Append(@, [col |-> letter,
                                                  row |-> ex[1]["row_index"],
                                                  value |-> Format2(nota_valor)]),
                     !.atualizados = Append(@, a.matricula)]
             ELSE [acc EXCEPT
                     !.erros = Append(@, [kind |-> "existente",
                                          matricula |-> a.matricula])]
        ELSE [acc EXCEPT !.registros = Append(@, nova_linha)]

\* The submit loop over alunos_serie.
RECURSIVE plan(_, _, _, _, _, _, _)
plan(alunos, data, letter, p, notas, sobrescrever, pr) ==
    IF alunos = <<>> THEN EmptyPlan
    ELSE plan_step(plan(SubSeq(alunos, 1, Len(alunos) - 1), data, letter, p, notas,
                        sobrescrever, pr),
                   alunos[Len(alunos)], data, letter, p, notas, sobrescrever, pr)

\* sheet_notas.batch_update(batch_updates): each range is one cell, column letter
\* and sheet row number; data row i is sheet row i + 1.
RECURSIVE batch_update(_, _)
batch_update(rows, updates) ==
    IF updates = <<>> THEN rows
    ELSE LET u == Head(updates)
             i == u.row - 1
             rest == Tail(updates)
         IN  IF i \in 1..Len(rows)
             THEN batch_update([rows EXCEPT ![i][Pos(Letters, u.col)] = u.value], rest)
             ELSE batch_update(rows, rest)

\* sheet_notas.append_rows(registros)
append_rows(rows, registros) == rows \o registros

\* Mutant: the gate lets every period through.
period_gate_open(bimestre, today) == <<TRUE, [kind |-> "vazio"]>>

\* Lines 198-203: the release-window gate of an interaction.
period_gate(bimestre, today) ==
    validate_period(bimestre, load_periodo(controle), today)

\* Mutant: a failed batch update aborts the interaction before the append.
execute_abort_on_failure(rows, pl, batch_ok, append_ok) ==
    LET do_batch == pl.batch_updates # <<>>
        do_append == pl.registros # <<>> /\ (do_batch => batch_ok)
        rows1 == IF do_batch /\ batch_ok THEN batch_update(rows, pl.batch_updates)
                 ELSE rows
        rows2 == IF do_append /\ append_ok THEN append_rows(rows1, pl.registros)
                 ELSE rows1
    IN  [ rows |-> rows2,
          requests |->
              (IF do_batch THEN <<[op |-> "batch_update", ok |-> batch_ok]>> ELSE <<>>)
           \o (IF do_append THEN <<[op |-> "append_rows", ok |-> append_ok]>> ELSE <<>>),
          messages |->
              (IF do_batch /\ batch_ok THEN <<"info_batch">> ELSE <<>>)
           \o (IF do_append /\ append_ok THEN <<"success_append">> ELSE <<>>),
          erros |->
              pl.erros
           \o (IF do_batch /\ ~batch_ok THEN <<[kind |-> "erro_batch"]>> ELSE <<>>)
           \o (IF do_append /\ ~append_ok THEN <<[kind |-> "erro_append"]>> ELSE <<>>) ]

\* Lines 303-318: the queued requests are executed, the cell updates first, then the
\* append; each is attempted on its own and a failure (the call raising) is added
\* to erros.  batch_ok / append_ok are the outcomes of the two calls.
execute(rows, pl, batch_ok, append_ok) ==
    LET do_batch == pl.batch_updates # <<>>
        do_append == pl.registros # <<>>
        rows1 == IF do_batch /\ batch_ok THEN batch_update(rows, pl.batch_updates)
                 ELSE rows
        rows2 == IF do_append /\ append_ok THEN append_rows(rows1, pl.registros)
                 ELSE rows1
    IN  [ rows |-> rows2,
          requests |->
              (IF do_batch THEN <<[op |-> "batch_update", ok |-> batch_ok]>> ELSE <<>>)
           \o (IF do_append THEN <<[op |-> "append_rows", ok |-> append_ok]>> ELSE <<>>),
          messages |->
              (IF do_batch /\ batch_ok THEN <<"info_batch">> ELSE <<>>)
           \o (IF do_append /\ append_ok THEN <<"success_append">> ELSE <<>>),
          erros |->
              pl.erros
           \o (IF do_batch /\ ~batch_ok THEN <<[kind |-> "erro_batch"]>> ELSE <<>>)
           \o (IF do_append /\ ~append_ok THEN <<[kind |-> "erro_append"]>> ELSE <<>>) ]

\* Lines 328-333: what is shown after the writes.
report(pl, erros) ==
       (IF pl.atualizados # <<>> THEN <<"info_atualizados">> ELSE <<>>)
    \o (IF erros # <<>> THEN <<"warning_erros">> ELSE <<>>)
    \o (IF pl.atualizados = <<>> /\ erros = <<>> /\ pl.registros = <<>>
        THEN <<"info_nenhuma_nota">> ELSE <<>>)

\* ------------------------------------------------------------ input domains

MatInputs == {"p1", "P9"}
NomeInputs == {"PROF"}
BimestreOptions == {"1o", "2o", "3o", "Final"}
TipoOptions == {"MENSAL"}
Scores == {0, 7500, 9996}

InitialRows ==
    << T10("ANA", "A1", "5a ", "M", "mat", "1o", "mensal", T4("7", ",", "5", " "),
           "PROF", " P1 "),
       T10("BRUNO", "A2", "5A", "M", "MAT", "2o", "MENSAL", T4("8", ".", "0", "0"),
           "PROF", "P1") >>

FirstDay == [y |-> 2025, m |-> 3, d |-> 1]

\* ------------------------------------------------------------------ actions

Init ==
    /\ sheet \in {[headers |-> h, rows |-> InitialRows] :
                    h \in {HeadersNotas, HeadersSemNota}}
    /\ controle = ControleRows
    /\ resultado = <<>>
    /\ cache = EmptyCache
    /\ df = [s \in Sessions |-> NoValue]
    /\ cache_version = [s \in Sessions |-> 0]
    /\ prof = [s \in Sessions |-> NoValue]
    /\ hoje = FirstDay
    /\ ticks = 0
    /\ ev = NoEv

\* Lines 114-125: the first run of a session loads its snapshot.
StartSession(s) ==
    /\ df[s] = NoValue
    /\ LET r == load_data(cache, sheet, cache_version[s])
       IN  /\ df' = [df EXCEPT ![s] = r[1]]
           /\ cache' = r[2]
    /\ ev' = NoEv
    /\ UNCHANGED <<sheet, controle, cache_version, prof, hoje, ticks, resultado>>

\* Lines 141-157: auth_form submitted with a name and a registration.
Authenticate(s) ==
    /\ df[s] # NoValue
    /\ prof[s] = NoValue
    /\ \E nome \in NomeInputs, mat \in MatInputs :
          prof' = IF validate_professor(mat, df[s].data)
                  THEN [prof EXCEPT ![s] = [nome_prof |-> nome, mat_prof |-> mat]]
                  ELSE prof
    /\ ev' = NoEv
    /\ UNCHANGED <<sheet, controle, cache, df, cache_version, hoje, ticks, resultado>>

\* Lines 104-110, 136-138: logout keeps df, headers and cache_version only.
logout(s) ==
    /\ prof[s] # NoValue
    /\ prof' = [prof EXCEPT ![s] = NoValue]
    /\ ev' = [kind |-> "logout", s |-> s]
    /\ UNCHANGED <<sheet, controle, cache, df, cache_version, hoje, ticks, resultado>>

\* Lines 303-338: the queued writes pl of a submitted form are executed and
\* reported; batch_ok / append_ok are the outcomes of the two spreadsheet calls.
\* Gives the session's new values and the outcome shown.
submit(s, snap, ws, c, version, p, gate, notas, sobrescrever, pl, batch_ok, append_ok) ==
    LET data == snap.data
        ex == execute(ws.rows, pl, batch_ok, append_ok)
        wrote == pl.batch_updates # <<>> \/ pl.registros # <<>>
        version2 == IF wrote THEN version + 1 ELSE version
        ws2 == [ws EXCEPT !.rows = ex.rows]
        r == load_data(c, ws2, version2)
    IN  [ sheet |-> ws2,
          cache_version |-> version2,
          df |-> IF wrote THEN r[1] ELSE snap,
          cache |-> IF wrote THEN r[2] ELSE c,
          ev |-> [kind |-> "launch", s |-> s, p |-> p,
                  periodo_valido |-> TRUE, mensagem |-> gate[2],
                  crashed |-> FALSE, submitted |-> TRUE,
                  notas |-> notas, sobrescrever |-> sobrescrever,
                  matched |-> [m \in DOMAIN notas |->
                      LET e == existe(data, m, p.serie, p.componente, p.bimestre, p.tipo)
                      IN  IF e = <<>> THEN 0 ELSE e[1]["row_index"]],
                  pl |-> pl,
                  requests |-> ex.requests,
                  erros |-> ex.erros,
                  messages |-> ex.messages \o report(pl, ex.erros),
                  reloaded |-> wrote] ]

\* The launch parameters the selectboxes offer (lines 164-188).
launch_params(data, pr) ==
    UNION { [serie : {serie}, componente : componentes(data, pr.mat_prof, serie),
             bimestre : BimestreOptions, tipo : TipoOptions] :
            serie \in series_disponiveis(data, pr.mat_prof) }

\* Line 239, reached while the form is rendered: df[cond]['Nota'] raises KeyError
\* when the snapshot has no 'Nota' column and a student has a row for the key.
render_raises(snap, alunos, p) ==
    /\ "Nota" \notin Range(snap.headers)
    /\ \E i \in 1..Len(alunos) :
          existe(snap.data, alunos[i].matricula, p.serie, p.componente,
                 p.bimestre, p.tipo) # <<>>

\* Lines 158-338: one run of the script with the launch parameters selected and
\* "Salvar Notas" pressed, over the scores typed, the overwrite choice and the
\* outcomes of the spreadsheet calls.  A bound value {e} is e computed once.
LaunchUpTo(s, max_version) ==
    /\ df[s] # NoValue
    /\ prof[s] # NoValue
    /\ \E p \in launch_params(df[s].data, prof[s]) :
       \E gate \in {period_gate(p.bimestre, hoje)},
          alunos \in {alunos_serie(df[s].data, p.serie)} :
          IF ~gate[1] \/ render_raises(df[s], alunos, p)
          THEN \* st.error and st.stop (lines 201-203), or the run dies on KeyError
               /\ ev' = [kind |-> "launch", s |-> s, p |-> p,
                         periodo_valido |-> gate[1], mensagem |-> gate[2],
                         crashed |-> gate[1], submitted |-> FALSE,
                         requests |-> <<>>]
               /\ UNCHANGED <<sheet, controle, cache, df, cache_version, prof, hoje,
                              ticks, resultado>>
          ELSE \E notas \in [{alunos[k].matricula : k \in 1..Len(alunos)} -> Scores],
                  sobrescrever \in BOOLEAN :
               \E pl \in {plan(alunos, df[s].data, nota_column_letter(df[s].headers),
                               p, notas, sobrescrever, prof[s])} :
               \E batch_ok \in IF pl.batch_updates # <<>> THEN BOOLEAN ELSE {TRUE},
                  append_ok \in IF pl.registros # <<>> THEN BOOLEAN ELSE {TRUE} :
               \E o \in {submit(s, df[s], sheet, cache, cache_version[s], p, gate,
                                notas, sobrescrever, pl, batch_ok, append_ok)} :
                  /\ Len(o.sheet.rows) <= MaxRows
                  /\ o.cache_version <= max_version
                  /\ sheet' = o.sheet
                  /\ cache' = o.cache
                  /\ df' = [df EXCEPT ![s] = o.df]
                  /\ cache_version' = [cache_version EXCEPT ![s] = o.cache_version]
                  /\ ev' = o.ev
                  /\ UNCHANGED <<controle, prof, hoje, ticks, resultado>>

Launch(s) == LaunchUpTo(s, MaxVersion)

\* ttl=300: the cached table expires.
CacheExpire ==
    /\ cache # EmptyCache
    /\ cache' = EmptyCache
    /\ ev' = NoEv
    /\ UNCHANGED <<sheet, controle, df, cache_version, prof, hoje, ticks, resultado>>

\* Midnight passes.
Tick ==
    /\ ticks < MaxTicks
    /\ ticks' = ticks + 1
    /\ hoje' = NextDate(hoje)
    /\ ev' = NoEv
    /\ UNCHANGED <<sheet, controle, cache, df, cache_version, prof, resultado>>

SessionStep(s) == StartSession(s) \/ Authenticate(s) \/ logout(s) \/ Launch(s)

\* The entry flow of one session.
Next == SessionStep("s1") \/ CacheExpire

Spec == Init /\ [][Next]_vars

\* Two sessions on the shared spreadsheet, both past their first load and
\* authentication (StartSession and Authenticate of each, from Init): each submits
\* on the snapshot it loaded before either wrote, in any interleaving, until its
\* first submission that writes.
InitRace ==
    /\ sheet = [headers |-> HeadersNotas, rows |-> InitialRows]
    /\ controle = ControleRows
    /\ resultado = <<>>
    /\ cache = [x \in {cache_key(WORKSHEET_NOTAS, 0)} |-> read_worksheet(sheet)]
    /\ df = [s \in Sessions |-> read_worksheet(sheet)]
    /\ cache_version = [s \in Sessions |-> 0]
    /\ prof = [s \in Sessions |-> [nome_prof |-> "PROF", mat_prof |-> "p1"]]
    /\ hoje = FirstDay
    /\ ticks = 0
    /\ ev = NoEv

LaunchRace(s) == cache_version[s] = 0 /\ Launch(s)

NextRace == (\E s \in Sessions : LaunchRace(s)) \/ CacheExpire

SpecRace == InitRace /\ [][NextRace]_vars

\* ------------------------------------------------- validate_period alone

DateTexts ==
    { T10("0", "1", "/", "0", "3", "/", "2", "0", "2", "5"),
      <<"2", "/", "3", "/", "2", "0", "2", "5">>,
      T10("3", "1", "/", "0", "2", "/", "2", "0", "2", "5"),
      T10("2", "0", "2", "5", "-", "0", "3", "-", "0", "1"),
      <<"0", "1", "/", "0", "3", "/", "2", "5">>,
      <<>> }

\* Release-window tables: one row for " 1o" or for "2o", and tables of two rows
\* for the same period.
WindowTables ==
    LET one == {<<[Bimestre |-> b, DataInicio |-> i, DataFim |-> f]>> :
                  b \in {" 1o", "2o"}, i \in DateTexts, f \in DateTexts}
    IN  one \cup {t \o u : t \in {x \in one : x[1].DataInicio = <<>>},
                           u \in {x \in one : x[1].DataFim # <<>>}}

PeriodFirstDay == [y |-> 2025, m |-> 2, d |-> 28]

InitPeriod ==
    /\ sheet = [headers |-> HeadersNotas, rows |-> <<>>]
    /\ controle \in WindowTables
    /\ resultado = <<>>
    /\ cache = EmptyCache
    /\ df = [s \in Sessions |-> NoValue]
    /\ cache_version = [s \in Sessions |-> 0]
    /\ prof = [s \in Sessions |-> NoValue]
    /\ hoje = PeriodFirstDay
    /\ ticks = 0
    /\ ev = NoEv

\* validate_period(bimestre, df_periodo, hoje) is called (line 200).
CheckPeriod ==
    /\ \E b \in BimestreOptions :
          ev' = [kind |-> "validate_period", bimestre |-> b,
                 result |-> period_gate(b, hoje)]
    /\ UNCHANGED <<sheet, controle, cache, df, cache_version, prof, hoje, ticks,
                   resultado>>

NextPeriod == CheckPeriod \/ Tick

SpecPeriod == InitPeriod /\ [][NextPeriod]_vars

\* ------------------------------------------------------------ consultaNotas

\* resultado['Componente Curricular'].unique(): in order of first appearance.
RECURSIVE unique_componentes(_)
unique_componentes(rows) ==
    IF rows = <<>> THEN <<>>
    ELSE LET init == unique_componentes(SubSeq(rows, 1, Len(rows) - 1))
             c == rows[Len(rows)]["Componente Curricular"]
         IN  IF \E i \in 1..Len(init) : init[i] = c THEN init ELSE Append(init, c)

\* Mutant: the filter on the evaluation type is lost.
first_nota_any_tipo(rows, tipo, comp) ==
    LET sel == SelectSeq(rows, LAMBDA r : r["Componente Curricular"] = comp)
    IN  IF sel # <<>> THEN sel[1]["Nota"] ELSE 0

\* rows[rows tipo == tipo][rows comp == comp]['Nota'].iloc[0] if not empty else 0.0
first_nota(rows, tipo, comp) ==
    LET sel == SelectSeq(rows, LAMBDA r : /\ r["Tipo de Avaliacao"] = tipo
                                          /\ r["Componente Curricular"] = comp)
    IN  IF sel # <<>> THEN sel[1]["Nota"] ELSE 0

\* calculate_media: the dict medias as its items in insertion order.
calculate_media(rows) ==
    LET comps == unique_componentes(rows)
    IN  [i \in 1..Len(comps) |->
           LET mensal == first_nota(rows, "MENSAL", comps[i])
               bimestral == first_nota(rows, "BIMESTRAL", comps[i])
           IN  [comp |-> comps[i],
                media |-> IF mensal > 0 \/ bimestral > 0
                          THEN (mensal + bimestral) \div 2 ELSE 0]]

\* Mutant: an average of exactly 7 is listed too.
check_recuperacao_inclusive(medias) ==
    LET needed == SelectSeq(medias, LAMBDA e : e.media <= 7000)
    IN  [i \in 1..Len(needed) |->
           [comp |-> needed[i].comp, media |-> Format2(needed[i].media)]]

\* check_recuperacao: "{comp} (Média: {media:.2f})" for every media < 7.
check_recuperacao(medias) ==
    LET needed == SelectSeq(medias, LAMBDA e : e.media < 7000)
    IN  [i \in 1..Len(needed) |->
           [comp |-> needed[i].comp, media |-> Format2(needed[i].media)]]

MaxResultado == 3   \* rows of one student and period

MediaComponentes == {"MAT", "CIE"}
MediaTipos == {"MENSAL", "BIMESTRAL", "RECUPERACAO"}
MediaNotas == {0, 4000, 6000, 8000}

ResultadoRow(c, tp, n) ==
    [k \in {"Componente Curricular", "Tipo de Avaliacao", "Nota"} |->
       IF k = "Nota" THEN n ELSE IF k = "Tipo de Avaliacao" THEN tp ELSE c]

Resultados ==
    UNION {[1..n -> {ResultadoRow(c, tp, x) :
                       c \in MediaComponentes, tp \in MediaTipos, x \in MediaNotas}] :
           n \in 1..MaxResultado}

InitMedia ==
    /\ sheet = [headers |-> HeadersNotas, rows |-> <<>>]
    /\ controle = ControleRows
    /\ resultado \in Resultados
    /\ cache = EmptyCache
    /\ df = [s \in Sessions |-> NoValue]
    /\ cache_version = [s \in Sessions |-> 0]
    /\ prof = [s \in Sessions |-> NoValue]
    /\ hoje = FirstDay
    /\ ticks = 0
    /\ ev = NoEv

\* display_boletim (lines 123-127 and the recovery message): the averages and the
\* recovery list of resultado.
Boletim ==
    /\ ev.kind = "none"
    /\ \E medias \in {calculate_media(resultado)} :
          ev' = [kind |-> "boletim", medias |-> medias,
                 recuperacao |-> check_recuperacao(medias)]
    /\ UNCHANGED <<sheet, controle, cache, df, cache_version, prof, hoje, ticks,
                   resultado>>

NextMedia == Boletim

SpecMedia == InitMedia /\ [][NextMedia]_vars

\* ------------------------------------------------------ clean_nota_value

\* consultaNotas.clean_nota_value: returns a float (here in thousandths);
\* float(value) raises ValueError for a text it does not accept.
consulta_clean_nota_value(value) ==
    IF value = NA THEN [raised |-> FALSE, value |-> 0]
    ELSE LET v1 == ReplaceComma(Strip(value))
             v2 == IF MatchesDayMonth(v1)
                   THEN LET k == FirstIdx(v1, "/")
                        IN  SubSeq(v1, 1, k - 1) \o <<".">> \o SubSeq(v1, k + 1, Len(v1))
                   ELSE v1
             v3 == JoinAfterFirstDot(KeepDigitsAndDots(v2))
         IN  IF v3 # <<>>
             THEN IF IsFloatText(v3)
                  THEN [raised |-> FALSE, value |-> FloatValue(v3)]
                  ELSE [raised |-> TRUE, exc |-> "ValueError"]
             ELSE [raised |-> FALSE, value |-> 0]

MaxNotaLen == 5     \* characters of a raw cell

NotaChars == {"7", "5", "2", ".", ",", "/", "-", "a", " "}

\* The raw values of a 'Nota' cell: missing, or any text over NotaChars.
RawNotas == {NA} \cup UNION {[1..n -> NotaChars] : n \in 0..MaxNotaLen}

NotaRow(raw) == T10("ANA", "A1", "5A", "M", "MAT", "1o", "MENSAL", raw, "PROF", "P1")

InitNota ==
    /\ sheet \in {[headers |-> HeadersNotas, rows |-> <<NotaRow(raw)>>] : raw \in RawNotas}
    /\ controle = ControleRows
    /\ resultado = <<>>
    /\ cache = EmptyCache
    /\ df = [s \in Sessions |-> NoValue]
    /\ cache_version = [s \in Sessions |-> 0]
    /\ prof = [s \in Sessions |-> NoValue]
    /\ hoje = FirstDay
    /\ ticks = 0
    /\ ev = NoEv

\* data['Nota'].apply(clean_nota_value) in the load_data of each program, on the
\* 'Nota' cell of the row.
CleanNota ==
    /\ ev.kind = "none"
    /\ \E raw \in {sheet.rows[1][8]} :
          ev' = [kind |-> "clean_nota_value", raw |-> raw,
                 lancamento |-> clean_nota_value(raw),
                 consulta |-> consulta_clean_nota_value(raw)]
    /\ UNCHANGED <<sheet, controle, cache, df, cache_version, prof, hoje, ticks,
                   resultado>>

NextNota == CleanNota

SpecNota == InitNota /\ [][NextNota]_vars

\* ------------------------------------------------------------------ claims

\* The composite key of a sheet row: (registration, class, subject, period,
\* evaluation type), compared as the code compares it (strip + upper).
RowKey(row) == <<Norm(row[2]), Norm(row[3]), Norm(row[5]), Norm(row[6]), Norm(row[7])>>

\* The key a submission writes for registration m.
SubmittedKey(m, p) ==
    <<Norm(m), Norm(p.serie), Norm(p.componente), Norm(p.bimestre), Norm(p.tipo)>>

KeyCount(rows, k) == Cardinality({i \in 1..Len(rows) : RowKey(rows[i]) = k})

Submitted == ev.kind = "launch" /\ ev.submitted

RequestOk(op) == \E i \in 1..Len(ev.requests) : ev.requests[i] = [op |-> op, ok |-> TRUE]

\* C1: starting from a store with at most one row per composite key, after any
\* sequence of submissions of a single session the store still holds at most one
\* row per key.
C1_UniqueKeyPerRow ==
    \A i, j \in 1..Len(sheet.rows) :
        i # j => RowKey(sheet.rows[i]) # RowKey(sheet.rows[j])

\* C2: after a submission that executed at least one queued append or cell update,
\* the session's snapshot is the table as the spreadsheet now holds it (the reload
\* is not served from the table cached before the write).
C2_ReadYourWrites ==
    (Submitted /\ (RequestOk("batch_update") \/ RequestOk("append_rows")))
        => df[ev.s] = read_worksheet(sheet)

\* C3: in an interaction where validate_period fails for the selected period (no
\* window row, unparsable dates, today outside the window) no batch cell update
\* and no append request is issued, and the form is not processed.
C3_GateBeforeWrite ==
    (ev.kind = "launch"
        /\ ~validate_period(ev.p.bimestre, load_periodo(controle), hoje)[1])
        => (ev.requests = <<>> /\ ~ev.submitted /\ ~ev.periodo_valido)

\* C3 witness: a launch for period "2o", whose window is over, was stopped with the
\* window message while another launch of the store has already written.
C3_Witness ==
    /\ ev.kind = "launch"
    /\ ev.p.bimestre = "2o"
    /\ ~ev.periodo_valido
    /\ ev.mensagem.kind = "fora_da_janela"
    /\ ev.requests = <<>>
    /\ Len(sheet.rows) > Len(InitialRows)

\* A date as one number, for comparing the dates of a claim.
DateOrd(dt) == dt.y * 10000 + dt.m * 100 + dt.d

\* The first row of the release-window sheet for the period of the last call.
PeriodMatches == {i \in 1..Len(controle) : Norm(controle[i].Bimestre) = Norm(ev.bimestre)}

PeriodRow == controle[CHOOSE i \in PeriodMatches : \A j \in PeriodMatches : i <= j]

ZeroScored == {m \in DOMAIN ev.notas : ev.notas[m] = 0}

\* The registrations entered with a score.
Entered == {m \in DOMAIN ev.notas : ev.notas[m] # 0}

\* What the submit loop queued or noted for registration m.
QueuedAppends(m) == {i \in 1..Len(ev.pl.registros) : ev.pl.registros[i][2] = m}

\* The data rows of the store that carry the key submitted for registration m, and
\* the queued cell updates addressed to one of them (sheet row = data row + 1).
TargetRows(m) ==
    {r \in 1..Len(sheet.rows) : RowKey(sheet.rows[r]) = SubmittedKey(m, ev.p)}

QueuedUpdates(m) ==
    {i \in 1..Len(ev.pl.batch_updates) : ev.pl.batch_updates[i].row - 1 \in TargetRows(m)}

Notices(m) ==
    {i \in 1..Len(ev.erros) :
        "matricula" \in DOMAIN ev.erros[i] /\ ev.erros[i].matricula = m}

UpdatedNotices(m) == {i \in 1..Len(ev.pl.atualizados) : ev.pl.atualizados[i] = m}

\* C5: a submitted score of exactly 0.0 queues no append and no cell update and
\* produces no per-student notice, whether or not a row exists for the key and
\* whether or not overwrite is selected; when every submitted score is 0.0 no write
\* request is issued, the only message is the aggregate "no grades entered" one,
\* and the step leaves the store and the cache version as they were.
C5_ZeroScoreSkipped ==
    /\ [](Submitted =>
            /\ \A m \in ZeroScored :
                  /\ QueuedAppends(m) = {}
                  /\ QueuedUpdates(m) = {}
                  /\ Notices(m) = {}
                  /\ UpdatedNotices(m) = {}
            /\ ZeroScored = DOMAIN ev.notas =>
                  /\ ev.requests = <<>>
                  /\ ev.erros = <<>>
                  /\ ev.messages = <<"info_nenhuma_nota">>)
    /\ [][(ev'.kind = "launch" /\ ev'.submitted
             /\ \A m \in DOMAIN ev'.notas : ev'.notas[m] = 0)
            => (sheet' = sheet /\ cache_version' = cache_version /\ df' = df)]_vars

\* C5 witness: an all-zero submission with overwrite selected, for a key that has a
\* row in the store, after an earlier submission has written.
C5_Witness ==
    /\ Submitted
    /\ ZeroScored = DOMAIN ev.notas
    /\ ev.sobrescrever
    /\ \E m \in DOMAIN ev.notas : ev.matched[m] # 0
    /\ cache_version[ev.s] > 0
    /\ ev.messages = <<"info_nenhuma_nota">>

NotaPos ==
    IF \E i \in 1..Len(sheet.headers) : sheet.headers[i] = "Nota"
    THEN CHOOSE i \in 1..Len(sheet.headers) : sheet.headers[i] = "Nota"
    ELSE 8

FirstTargetRow(m) == CHOOSE r \in TargetRows(m) : \A q \in TargetRows(m) : r <= q

\* C7: with overwrite selected, a nonzero score whose key matches a row queues
\* exactly one cell update, addressed by the sheet row of the first row with that
\* key (first data row = 2) and the letter of the Nota column (from the header
\* row, H without a 'Nota' header), with the score in 2 decimals, and no append;
\* no other update is queued.  In every step the rows present before stay in place
\* and in number, and the only cell of them that changes is the Nota cell of such a
\* matched row, which takes the formatted score.
C7_TargetedUpdateAndFrame ==
    /\ [](/\ nota_column_letter(sheet.headers) = Letters[NotaPos]
          /\ Submitted /\ ev.sobrescrever =>
               /\ \A m \in Entered :
                     ev.matched[m] # 0 =>
                        /\ QueuedAppends(m) = {}
                        /\ Cardinality(QueuedUpdates(m)) = 1
                        /\ \A i \in QueuedUpdates(m) :
                              /\ ev.pl.batch_updates[i].row = FirstTargetRow(m) + 1
                              /\ ev.pl.batch_updates[i].row >= 2
                              /\ ev.pl.batch_updates[i].col = Letters[NotaPos]
                              /\ ev.pl.batch_updates[i].value = Format2(ev.notas[m])
               /\ Len(ev.pl.batch_updates)
                     = Cardinality({m \in Entered : ev.matched[m] # 0}))
    /\ [][/\ sheet'.headers = sheet.headers
          /\ Len(sheet'.rows) >= Len(sheet.rows)
          /\ \A r \in 1..Len(sheet.rows) : \A c \in 1..Len(sheet.rows[r]) :
                sheet'.rows[r][c] # sheet.rows[r][c] =>
                   /\ c = NotaPos
                   /\ ev'.kind = "launch" /\ ev'.submitted /\ ev'.sobrescrever
                   /\ \E m \in DOMAIN ev'.notas :
                         /\ ev'.notas[m] # 0
                         /\ ev'.matched[m] # 0
                         /\ RowKey(sheet.rows[r]) = SubmittedKey(m, ev'.p)
                         /\ sheet'.rows[r][c] = Format2(ev'.notas[m])]_vars

\* C7 witness: an overwrite of 9.996 succeeded: the matched row holds "10.00", its
\* teacher cells are those of the initial row, and a row was appended before.
C7_Witness ==
    /\ Submitted
    /\ ev.sobrescrever
    /\ RequestOk("batch_update")
    /\ \E m \in Entered :
          /\ ev.notas[m] = 9996
          /\ ev.matched[m] = 2
          /\ sheet.rows[1][8] = <<"1", "0", ".", "0", "0">>
          /\ sheet.rows[1][9] = InitialRows[1][9]
          /\ sheet.rows[1][10] = InitialRows[1][10]
    /\ Len(sheet.rows) > Len(InitialRows)

BothQueued == Submitted /\ ev.pl.batch_updates # <<>> /\ ev.pl.registros # <<>>

ErroKinds == {ev.erros[i].kind : i \in 1..Len(ev.erros)}

SnapshotKey(r) ==
    <<Norm(r["Matricula"]), Norm(r["Serie"]), Norm(r["Componente Curricular"]),
      Norm(r["Bimestre"]), Norm(r["Tipo de Avaliacao"])>>

InSnapshot(s, k) == \E i \in 1..Len(df[s].data) : SnapshotKey(df[s].data[i]) = k

FirstRowOf(rows, k) ==
    CHOOSE r \in 1..Len(rows) :
        /\ RowKey(rows[r]) = k
        /\ \A q \in 1..(r - 1) : RowKey(rows[q]) # k

\* C9: two sessions share the spreadsheet without locking.  A submission whose
\* requests succeed appends one row for every nonzero score whose key is absent
\* from the snapshot the session holds, whether or not the store already has a row
\* for that key (written by the other session since the snapshot was loaded), and
\* with overwrite it sets the Nota cell of a key present in its snapshot to its own
\* score, whatever the other session wrote there.
C9_NoLockingRace ==
    [][(ev'.kind = "launch" /\ ev'.submitted
          /\ \A i \in 1..Len(ev'.requests) : ev'.requests[i].ok)
         => \A m \in DOMAIN ev'.notas :
               ev'.notas[m] # 0 =>
                  LET k == SubmittedKey(m, ev'.p)
                  IN  IF ~InSnapshot(ev'.s, k)
                      THEN KeyCount(sheet'.rows, k) = KeyCount(sheet.rows, k) + 1
                      ELSE /\ KeyCount(sheet'.rows, k) = KeyCount(sheet.rows, k)
                           /\ ev'.sobrescrever =>
                                 sheet'.rows[FirstRowOf(sheet.rows, k)][8]
                                    = Format2(ev'.notas[m])]_vars

\* C9 witness: both sessions submitted on the snapshot loaded before either wrote.
\* The store holds two rows for one key, and the cell where the other session wrote
\* 10.00 (as its reloaded snapshot shows) now holds the 7.50 of the last one.
C9_Witness ==
    /\ Submitted
    /\ \A s \in Sessions : cache_version[s] = 1
    /\ \E m \in Entered : KeyCount(sheet.rows, SubmittedKey(m, ev.p)) = 2
    /\ ev.sobrescrever
    /\ \E m \in Entered :
          /\ ev.notas[m] = 7500
          /\ ev.matched[m] = 2
          /\ sheet.rows[1][8] = <<"7", ".", "5", "0">>
          /\ \E o \in Sessions \ {ev.s} : df[o].data[1]["Nota"] = 10000

\* The rows of resultado for subject comp and evaluation type tipo, and the score
\* of the first of them (0.0 without one).
RowsOf(comp, tipo) ==
    {i \in 1..Len(resultado) :
        /\ resultado[i]["Componente Curricular"] = comp
        /\ resultado[i]["Tipo de Avaliacao"] = tipo}

FirstScore(comp, tipo) ==
    IF RowsOf(comp, tipo) = {} THEN 0
    ELSE resultado[CHOOSE i \in RowsOf(comp, tipo) :
                      \A j \in RowsOf(comp, tipo) : i <= j]["Nota"]

MediaOf(comp) == {ev.medias[i].media : i \in {j \in 1..Len(ev.medias) : ev.medias[j].comp = comp}}

\* C10: calculate_media has one entry for every subject present in the rows; with
\* m the first MENSAL score and b the first BIMESTRAL score of the subject (0.0
\* when absent) its average is (m+b)/2 when m or b is nonzero and 0.0 otherwise;
\* check_recuperacao lists a subject exactly when its average is below 7.0.
C10_MediaAndRecuperacao ==
    ev.kind = "boletim" =>
        /\ {ev.medias[i].comp : i \in 1..Len(ev.medias)}
              = {resultado[i]["Componente Curricular"] : i \in 1..Len(resultado)}
        /\ \A i, j \in 1..Len(ev.medias) : ev.medias[i].comp = ev.medias[j].comp => i = j
        /\ \A i \in 1..Len(ev.medias) :
              LET m == FirstScore(ev.medias[i].comp, "MENSAL")
                  b == FirstScore(ev.medias[i].comp, "BIMESTRAL")
              IN  IF m # 0 \/ b # 0
                  THEN 2 * ev.medias[i].media = m + b
                  ELSE ev.medias[i].media = 0
        /\ {ev.recuperacao[i].comp : i \in 1..Len(ev.recuperacao)}
              = {ev.medias[i].comp : i \in {j \in 1..Len(ev.medias) : ev.medias[j].media < 7000}}
        /\ \A i, j \in 1..Len(ev.recuperacao) :
              ev.recuperacao[i].comp = ev.recuperacao[j].comp => i = j
        /\ \A i \in 1..Len(ev.recuperacao) :
              \E x \in MediaOf(ev.recuperacao[i].comp) : ev.recuperacao[i].media = Format2(x)

\* C10 witness: one subject with MENSAL 6.0 and BIMESTRAL 8.0 has average 7.0 and
\* is not listed; the other with only MENSAL 4.0 has average 2.0 and is listed.
C10_Witness ==
    /\ ev.kind = "boletim"
    /\ FirstScore("MAT", "MENSAL") = 6000
    /\ FirstScore("MAT", "BIMESTRAL") = 8000
    /\ MediaOf("MAT") = {7000}
    /\ RowsOf("CIE", "BIMESTRAL") = {}
    /\ FirstScore("CIE", "MENSAL") = 4000
    /\ MediaOf("CIE") = {2000}
    /\ {ev.recuperacao[i].comp : i \in 1..Len(ev.recuperacao)} = {"CIE"}

\* The orderings of the rows of resultado.
PermsOf ==
    [n \in 0..MaxResultado |->
        {f \in [1..n -> 1..n] : \A i, j \in 1..n : f[i] = f[j] => i = j}]

Perms(n) == PermsOf[n]

Reordered(rows) == {[i \in 1..Len(rows) |-> rows[f[i]]] : f \in Perms(Len(rows))}

\* The subject-to-average mapping and the recovery list as sets.
MediaMap(medias) == {<<medias[i].comp, medias[i].media>> : i \in 1..Len(medias)}

RecSet(rec) == {<<rec[i].comp, rec[i].media>> : i \in 1..Len(rec)}

\* Every ordering of resultado gives the averages and the recovery list shown.
OrderIndependent ==
    \A shown \in {MediaMap(ev.medias)}, listed \in {RecSet(ev.recuperacao)} :
        \A q \in Reordered(resultado) :
            \A medias \in {calculate_media(q)} :
                /\ MediaMap(medias) = shown
                /\ RecSet(check_recuperacao(medias)) = listed

\* resultado has at most one MENSAL row and at most one BIMESTRAL row per subject.
OnePerType ==
    \A i, j \in 1..Len(resultado) :
        (/\ resultado[i]["Componente Curricular"] = resultado[j]["Componente Curricular"]
         /\ resultado[i]["Tipo de Avaliacao"] = resultado[j]["Tipo de Avaliacao"]
         /\ resultado[i]["Tipo de Avaliacao"] \in {"MENSAL", "BIMESTRAL"})
            => i = j

\* C11 (as amended): when the rows of one student and period hold at most one
\* MENSAL and at most one BIMESTRAL row per subject, every ordering of the rows
\* gives the same subject-to-average mapping and the same recovery list.
C11_OrderIndependentWhenUnique ==
    (ev.kind = "boletim" /\ OnePerType) => OrderIndependent

\* C11 (as stated): for any two orderings of the same rows calculate_media
\* returns the same subject-to-average mapping and check_recuperacao flags the
\* same subjects.
C11_OrderIndependent ==
    ev.kind = "boletim" => OrderIndependent

\* C11 witness: three rows in an order that is not the only one, MENSAL 6.0 and
\* BIMESTRAL 8.0 of one subject after the MENSAL 4.0 of the other.
C11_Witness ==
    /\ ev.kind = "boletim"
    /\ OnePerType
    /\ Len(resultado) = 3
    /\ resultado[1] = ResultadoRow("CIE", "MENSAL", 4000)
    /\ resultado[2] = ResultadoRow("MAT", "BIMESTRAL", 8000)
    /\ resultado[3] = ResultadoRow("MAT", "MENSAL", 6000)
    /\ MediaMap(ev.medias) = {<<"CIE", 2000>>, <<"MAT", 7000>>}
    /\ Cardinality(Reordered(resultado)) = 6

\* The digits and periods a raw text keeps: commas count as periods, and so does
\* the slash of a text of the shape d/m; everything else is dropped.
KeptChars(raw) ==
    LET s == Strip(raw)
        dm == /\ Len(s) \in 3..5
              /\ \E k \in 2..3 :
                    /\ k < Len(s) /\ Len(s) - k <= 2
                    /\ s[k] = "/"
                    /\ \A i \in 1..Len(s) : i # k => s[i] \in Digit
        asDot(c) == c = "." \/ c = "," \/ (dm /\ c = "/")
    IN  [i \in 1..Len(SelectSeq(s, LAMBDA c : c \in Digit \/ asDot(c))) |->
           LET c == SelectSeq(s, LAMBDA x : x \in Digit \/ asDot(x))[i]
           IN  IF c \in Digit THEN c ELSE "."]

\* The number a kept text stands for when only its first period separates the
\* decimals, in thousandths (integer part, then the first three decimals).
RECURSIVE KeptValue(_, _, _)
KeptValue(s, seen, scale) ==
    IF s = <<>> THEN 0
    ELSE IF Head(s) = "." THEN KeptValue(Tail(s), TRUE, scale)
    ELSE IF seen
         THEN DigitVal(Head(s)) * scale + KeptValue(Tail(s), TRUE, scale \div 10)
         ELSE LET intDigits == Cardinality({i \in 2..Len(s) :
                                  \A j \in 2..i : s[j] # "."})
                  pow[n \in 0..MaxNotaLen + 1] == IF n = 0 THEN 1 ELSE 10 * pow[n - 1]
              IN  DigitVal(Head(s)) * 1000 * pow[intDigits]
                  + KeptValue(Tail(s), FALSE, scale)

\* C12: clean_nota_value of both programs returns, for every raw cell value
\* (missing, blank, or a text over digits, commas, periods, slashes, signs and
\* letters), without raising: a non-negative number in consultaNotas and the
\* decimal text of one in lancamentoNotas; 0.0 for a missing value and for a value
\* that keeps no digit or period; and the digits read with only the first period
\* as decimal separator otherwise.
C12_CleanNotaTotal ==
    ev.kind = "clean_nota_value" =>
        /\ ~ev.consulta.raised
        /\ ev.consulta.value >= 0
        /\ IsFloatText(ev.lancamento)
        /\ FloatValue(ev.lancamento) = ev.consulta.value
        /\ IF ev.raw = NA \/ KeptChars(ev.raw) = <<>>
           THEN ev.consulta.value = 0 /\ ev.lancamento = <<"0", ".", "0">>
           ELSE ev.consulta.value = KeptValue(KeptChars(ev.raw), FALSE, 100)

\* The snapshot rows carrying the registration mat of a teacher.
TeacherRows(snap, mat) ==
    {i \in 1..Len(snap.data) : Norm(snap.data[i]["Mat_Professor"]) = Norm(mat)}

Authenticated(s) == prof[s] # NoValue

\* C13: a session is authenticated only by a check that found the entered
\* registration in the Mat_Professor column of its snapshot; a write request is
\* issued only in an authenticated session, for a class and subject that the
\* snapshot holds on a row carrying that teacher's registration, and the rows it
\* appends carry that teacher's name and registration; logout removes the flag and
\* the identity, so that no write is issued before a new successful
\* authentication.
C13_WritesOnlyByAuthenticatedTeacher ==
    /\ [](/\ \A s \in Sessions :
                Authenticated(s) =>
                   df[s] # NoValue /\ TeacherRows(df[s], prof[s].mat_prof) # {}
          /\ (Submitted /\ ev.requests # <<>>) => Authenticated(ev.s)
          /\ ev.kind = "logout" => ~Authenticated(ev.s))
    /\ [][/\ \A s \in Sessions :
                (~Authenticated(s) /\ Authenticated(s)') =>
                   TeacherRows(df[s], prof'[s].mat_prof) # {}
          /\ (ev'.kind = "launch" /\ ev'.submitted /\ ev'.requests # <<>>) =>
                /\ Authenticated(ev'.s)
                /\ prof'[ev'.s] = prof[ev'.s]
                /\ \E i \in TeacherRows(df[ev'.s], prof[ev'.s].mat_prof) :
                      /\ Norm(df[ev'.s].data[i]["Serie"]) = Norm(ev'.p.serie)
                      /\ Norm(df[ev'.s].data[i]["Componente Curricular"])
                            = Norm(ev'.p.componente)
                /\ \A i \in 1..Len(ev'.pl.registros) :
                      /\ ev'.pl.registros[i][9] = prof[ev'.s].nome_prof
                      /\ ev'.pl.registros[i][10] = prof[ev'.s].mat_prof]_vars

\* C13 witness: the teacher entered the registration as "p1", which the column
\* holds as " P1 " and "P1"; the session's append succeeded and the new row
\* carries the teacher's name and the registration as entered.
C13_Witness ==
    /\ Submitted
    /\ RequestOk("append_rows")
    /\ Authenticated(ev.s)
    /\ prof[ev.s].mat_prof = "p1"
    /\ sheet.rows[Len(sheet.rows)][10] = "p1"
    /\ sheet.rows[Len(sheet.rows)][9] = prof[ev.s].nome_prof
    /\ \A r \in 1..Len(sheet.rows) : sheet.rows[r][10] # "P9"

====
